---------------------------- MODULE Spec2Model ----------------------------
(***************************************************************************)
(* Model of the file-encryption core of ADVANCED-ENCRYPTION-TOOL           *)
(* (src/fileUtils.ts): validatePassword, deriveKey, encryptFile and        *)
(* decryptFile, together with the password field of the EncryptionTool     *)
(* component.                                                              *)
(*                                                                         *)
(* Bytes.  A byte of a buffer is a record [v, t].  A plain byte has        *)
(* t = <<>> and value v in 0..255.  The bytes that crypto.subtle.encrypt   *)
(* (AES-GCM) produces are symbolic: t names the term the byte belongs to   *)
(* (a ciphertext byte or a tag byte of one key, iv and plaintext) and v is *)
(* the XOR mask that has been applied to it since (0 = as produced), so a  *)
(* bit flip is the same operation on every byte of a container.  PBKDF2    *)
(* and AES-GCM are the browser's; they are modelled as perfect primitives: *)
(* a derived key is determined by, and determines, the encoded password    *)
(* and the salt, and a tag verifies only for the exact (key, iv,           *)
(* ciphertext) it was computed for.                                        *)
(*                                                                         *)
(* Strings are sequences of UTF-16 code units, as in JavaScript.           *)
(***************************************************************************)
EXTENDS Integers, Sequences, FiniteSets, TLC

VARIABLES
    calls,             \* calls[c]: the locals of the c-th encryptFile/decryptFile call
    password,          \* EncryptionTool state: useState('')
    passwordStrength,  \* EncryptionTool state: 'weak' | 'medium' | 'strong' | null
    selectedFile,      \* EncryptionTool state: FileData | null
    isProcessing,      \* EncryptionTool state: useState(false)
    progress,          \* EncryptionTool state: useState(0)
    message,           \* EncryptionTool state: { type, text } | null
    timers             \* whether a setTimeout(() => setMessage(null), 5000) is pending

vars ==
    <<calls, password, passwordStrength, selectedFile, isProcessing, progress,
      message, timers>>

\* The state of the component other than the password field.
panel == <<selectedFile, isProcessing, progress, message, timers>>

---------------------------------------------------------------------------
(* Sizes fixed by the code *)

SaltLen == 16
IvLen == 12
TagLen == 16
HeaderLen == 28
LenFieldLen == 4

(* Bounds of the model *)

MaxCalls == 2
MaxPad == 9

---------------------------------------------------------------------------
(* Sequences and bytes *)

Min(a, b) == IF a < b THEN a ELSE b

\* TypedArray.prototype.slice(begin, end): zero-based, half-open, clamped.
Slice(s, begin, end) ==
    LET b == Min(begin, Len(s))
        e == Min(end, Len(s))
    IN  IF e <= b THEN <<>> ELSE SubSeq(s, b + 1, e)

SliceFrom(s, begin) == Slice(s, begin, Len(s))

Raw(n) == [v |-> n, t |-> <<>>]

RawSeq(ns) == [i \in 1..Len(ns) |-> Raw(ns[i])]

IsRaw(b) == b.t = <<>>

\* v with bit k (0..7) inverted.
FlipBitOf(v, k) ==
    IF (v \div (2 ^ k)) % 2 = 1 THEN v - 2 ^ k ELSE v + 2 ^ k

\* The buffer with bit k of the byte at zero-based offset pos inverted.
FlipBit(buf, pos, k) ==
    [buf EXCEPT ![pos + 1] = [@ EXCEPT !.v = FlipBitOf(@, k)]]

---------------------------------------------------------------------------
(* TextEncoder.encode and TextDecoder.decode (UTF-8) *)

IsHighSurrogate(u) == u >= 55296 /\ u <= 56319

IsLowSurrogate(u) == u >= 56320 /\ u <= 57343

RECURSIVE ToScalars(_)
\* A string's code units as Unicode scalar values; a lone surrogate becomes
\* U+FFFD, as the conversion to a USVString does.
ToScalars(s) ==
    IF s = <<>> THEN <<>>
    ELSE IF IsHighSurrogate(s[1]) /\ Len(s) >= 2 /\ IsLowSurrogate(s[2])
         THEN <<65536 + (s[1] - 55296) * 1024 + (s[2] - 56320)>>
                  \o ToScalars(SubSeq(s, 3, Len(s)))
    ELSE IF IsHighSurrogate(s[1]) \/ IsLowSurrogate(s[1])
         THEN <<65533>> \o ToScalars(Tail(s))
    ELSE <<s[1]>> \o ToScalars(Tail(s))

Utf8Of(cp) ==
    IF cp < 128 THEN <<cp>>
    ELSE IF cp < 2048 THEN <<192 + (cp \div 64), 128 + (cp % 64)>>
    ELSE IF cp < 65536
         THEN <<224 + (cp \div 4096), 128 + ((cp \div 64) % 64), 128 + (cp % 64)>>
    ELSE <<240 + (cp \div 262144), 128 + ((cp \div 4096) % 64),
           128 + ((cp \div 64) % 64), 128 + (cp % 64)>>

RECURSIVE Utf8OfAll(_)
Utf8OfAll(cps) ==
    IF cps = <<>> THEN <<>> ELSE Utf8Of(cps[1]) \o Utf8OfAll(Tail(cps))

\* new TextEncoder().encode(s), as plain bytes.
TextEncode(s) == RawSeq(Utf8OfAll(ToScalars(s)))

RECURSIVE Utf8Decode(_, _, _, _, _)
\* The UTF-8 decoder of the Encoding standard in replacement mode, over byte
\* values bs: need = continuation bytes still expected, cp = the code point
\* so far, lo..hi = the range allowed for the next byte.
Utf8Decode(bs, need, cp, lo, hi) ==
    IF bs = <<>> THEN (IF need > 0 THEN <<65533>> ELSE <<>>)
    ELSE LET b == bs[1]
             rest == Tail(bs)
         IN  IF need = 0
             THEN IF b < 128 THEN <<b>> \o Utf8Decode(rest, 0, 0, 128, 191)
                  ELSE IF b >= 194 /\ b <= 223
                       THEN Utf8Decode(rest, 1, b - 192, 128, 191)
                  ELSE IF b >= 224 /\ b <= 239
                       THEN Utf8Decode(rest, 2, b - 224,
                                       IF b = 224 THEN 160 ELSE 128,
                                       IF b = 237 THEN 159 ELSE 191)
                  ELSE IF b >= 240 /\ b <= 244
                       THEN Utf8Decode(rest, 3, b - 240,
                                       IF b = 240 THEN 144 ELSE 128,
                                       IF b = 244 THEN 143 ELSE 191)
                  ELSE <<65533>> \o Utf8Decode(rest, 0, 0, 128, 191)
             ELSE IF b < lo \/ b > hi
                  THEN <<65533>> \o Utf8Decode(bs, 0, 0, 128, 191)
             ELSE IF need = 1
                  THEN <<cp * 64 + (b - 128)>> \o Utf8Decode(rest, 0, 0, 128, 191)
             ELSE Utf8Decode(rest, need - 1, cp * 64 + (b - 128), 128, 191)

CodeUnitsOf(cp) ==
    IF cp < 65536 THEN <<cp>>
    ELSE <<55296 + ((cp - 65536) \div 1024), 56320 + ((cp - 65536) % 1024)>>

RECURSIVE ToCodeUnits(_)
ToCodeUnits(cps) ==
    IF cps = <<>> THEN <<>> ELSE CodeUnitsOf(cps[1]) \o ToCodeUnits(Tail(cps))

\* A byte's value as the decoder sees it; a byte that is no plain byte is
\* ciphertext, which the decoder meets as a byte that starts no sequence.
ByteValue(b) == IF IsRaw(b) THEN b.v ELSE 255

\* new TextDecoder().decode(bytes): UTF-8, errors replaced by U+FFFD, and
\* (ignoreBOM being false) one leading U+FEFF dropped.
\* (CHOOSE binds cps to the decoded code points once; TLC evaluates a LET
\* anew wherever it is read when it evaluates ENABLED.)
TextDecode(bytes) ==
    LET NoBom(cps) == IF cps # <<>> /\ cps[1] = 65279 THEN Tail(cps) ELSE cps
    IN  CHOOSE s \in
            {ToCodeUnits(NoBom(cps)) :
                 cps \in {Utf8Decode([i \in 1..Len(bytes) |-> ByteValue(bytes[i])],
                                     0, 0, 128, 191)}} : TRUE

---------------------------------------------------------------------------
(* The Web Crypto primitives the code calls *)

RECURSIVE StripTrailingZeros(_)
\* HMAC pads a key shorter than its block with zero bytes, so PBKDF2-HMAC
\* does not tell a password from the same password followed by NUL bytes.
StripTrailingZeros(bytes) ==
    IF bytes # <<>> /\ bytes[Len(bytes)] = Raw(0)
    THEN StripTrailingZeros(SubSeq(bytes, 1, Len(bytes) - 1))
    ELSE bytes

\* crypto.subtle.importKey('raw', passwordBuffer, 'PBKDF2', ...)
ImportKey(passwordBuffer) == StripTrailingZeros(passwordBuffer)

\* Mutant: the key derived from the salt alone.
Pbkdf2SaltOnly(baseKey, salt) == [pw |-> <<>>, salt |-> salt]

\* crypto.subtle.deriveKey({PBKDF2, salt, 100000, SHA-256}, baseKey, AES-GCM 256)
Pbkdf2(baseKey, salt) == [pw |-> baseKey, salt |-> salt]

\* deriveKey(password, salt): the key both steps of it end in.
deriveKey(pw, salt) == Pbkdf2(ImportKey(TextEncode(pw)), salt)

\* AES-GCM runs the cipher in counter mode: byte i of the ciphertext is byte
\* i of the plaintext under the key stream of (key, iv).  The model writes it
\* as the plaintext byte sealed at position i; which key and iv sealed it is
\* recorded once, in the tag.
CipherByte(key, iv, i, p) == [v |-> 0, t |-> <<"E", i, p>>]

\* The tag is one value of TagLen bytes over (key, iv, ciphertext).  Its
\* first byte carries the term, the others their position in the tag.
TagByte(key, iv, j, ct) ==
    [v |-> 0, t |-> IF j = 1 THEN <<"T", j, key, iv, ct>> ELSE <<"T", j>>]

GcmCiphertext(key, iv, pt) == [i \in 1..Len(pt) |-> CipherByte(key, iv, i, pt[i])]

GcmTag(key, iv, ct) == [j \in 1..TagLen |-> TagByte(key, iv, j, ct)]

\* crypto.subtle.encrypt({AES-GCM, iv}, key, data): ciphertext, then the tag.
AesGcmEncrypt(key, iv, pt) ==
    LET ct == GcmCiphertext(key, iv, pt) IN ct \o GcmTag(key, iv, ct)

\* Mutant: a cipher mode without authentication; the tag is cut off unread
\* and an inverted ciphertext bit comes out as an inverted plaintext bit.
AesGcmDecryptUnverified(key, iv, data) ==
    IF Len(data) < TagLen THEN [ok |-> FALSE, pt |-> <<>>]
    ELSE LET ct == SubSeq(data, 1, Len(data) - TagLen)
             Opened(b) ==
                 IF IsRaw(b) \/ Len(b.t) # 3 THEN b
                 ELSE IF b.v = 0 THEN b.t[3]
                 ELSE [v |-> (b.t[3].v + b.v) % 256, t |-> b.t[3].t]
         IN  [ok |-> TRUE, pt |-> [i \in 1..Len(ct) |-> Opened(ct[i])]]

\* crypto.subtle.decrypt({AES-GCM, iv}, key, data): OperationError (ok = FALSE)
\* when data is shorter than a tag or the tag does not verify; the plaintext
\* only after the tag has verified.
AesGcmDecrypt(key, iv, data) ==
    IF Len(data) < TagLen THEN [ok |-> FALSE, pt |-> <<>>]
    ELSE LET ct == SubSeq(data, 1, Len(data) - TagLen)
             tag == SubSeq(data, Len(data) - TagLen + 1, Len(data))
         IN  IF tag = GcmTag(key, iv, ct)
             THEN [ok |-> TRUE, pt |-> [i \in 1..Len(ct) |-> ct[i].t[3]]]
             ELSE [ok |-> FALSE, pt |-> <<>>]

---------------------------------------------------------------------------
(* Payload framing and the container *)

\* DataView.setUint32(0, n, true)
Uint32LE(n) ==
    RawSeq(<<n % 256, (n \div 256) % 256, (n \div 65536) % 256,
             (n \div 16777216) % 256>>)

\* DataView.getUint32(0, true) of a buffer of at least four bytes.
GetUint32LE(buf) ==
    ByteValue(buf[1]) + 256 * ByteValue(buf[2]) + 65536 * ByteValue(buf[3])
        + 16777216 * ByteValue(buf[4])

\* encryptFile: metadata (length, filename) followed by the file data.
BuildPayload(name, fileBuffer) ==
    LET filenameBytes == TextEncode(name)
        metadata == Uint32LE(Len(filenameBytes)) \o filenameBytes
    IN  metadata \o fileBuffer

\* encryptFile: salt, IV and encrypted data combined.
BuildContainer(salt, iv, encryptedData) == salt \o iv \o encryptedData

\* decryptFile: extract salt, IV, and encrypted data.
SplitContainer(encryptedArray) ==
    [salt |-> Slice(encryptedArray, 0, SaltLen),
     iv |-> Slice(encryptedArray, SaltLen, HeaderLen),
     encryptedData |-> SliceFrom(encryptedArray, HeaderLen)]

\* decryptFile: extract metadata and file data.  getUint32 throws a
\* RangeError on a buffer of fewer than four bytes (ok = FALSE); the slices
\* clamp to the buffer.
ParsePayload(decryptedArray) ==
    IF Len(decryptedArray) < LenFieldLen
    THEN [ok |-> FALSE, originalFilename |-> <<>>, decryptedData |-> <<>>]
    ELSE LET filenameLength == GetUint32LE(decryptedArray)
         IN  [ok |-> TRUE,
              originalFilename |->
                  TextDecode(Slice(decryptedArray, LenFieldLen,
                                   LenFieldLen + filenameLength)),
              decryptedData |->
                  SliceFrom(decryptedArray, LenFieldLen + filenameLength)]

---------------------------------------------------------------------------
(* validatePassword *)

IsUpperCase(u) == u >= 65 /\ u <= 90

IsLowerCase(u) == u >= 97 /\ u <= 122

IsNumber(u) == u >= 48 /\ u <= 57

\* The characters of the class [!@#$%^&*(),.?":{}|<>]
SymbolChars ==
    {33, 64, 35, 36, 37, 94, 38, 42, 40, 41, 44, 46, 63, 34, 58, 123, 125,
     124, 60, 62}

IsSymbol(u) == u \in SymbolChars

hasUpperCase(pw) == \E i \in 1..Len(pw) : IsUpperCase(pw[i])

hasLowerCase(pw) == \E i \in 1..Len(pw) : IsLowerCase(pw[i])

hasNumbers(pw) == \E i \in 1..Len(pw) : IsNumber(pw[i])

hasSymbols(pw) == \E i \in 1..Len(pw) : IsSymbol(pw[i])

\* [...].filter(Boolean).length, one flag at a time
Count(b) == IF b THEN 1 ELSE 0

\* Mutant: strong only above 12 characters.
validatePasswordAbove12(pw) ==
    IF Len(pw) < 8 THEN "weak"
    ELSE LET strength == Count(hasUpperCase(pw)) + Count(hasLowerCase(pw))
                             + Count(hasNumbers(pw)) + Count(hasSymbols(pw))
         IN  IF Len(pw) > 12 /\ strength >= 3 THEN "strong"
             ELSE IF Len(pw) >= 8 /\ strength >= 2 THEN "medium"
             ELSE "weak"

validatePassword(pw) ==
    IF Len(pw) < 8 THEN "weak"
    ELSE LET strength == Count(hasUpperCase(pw)) + Count(hasLowerCase(pw))
                             + Count(hasNumbers(pw)) + Count(hasSymbols(pw))
         IN  IF Len(pw) >= 12 /\ strength >= 3 THEN "strong"
             ELSE IF Len(pw) >= 8 /\ strength >= 2 THEN "medium"
             ELSE "weak"

---------------------------------------------------------------------------
(* One call of encryptFile or decryptFile: its locals and where it stands *)

EncryptError == "Failed to encrypt file"

DecryptError == "Failed to decrypt file - please check your password"

NoFile == [name |-> <<>>, bytes |-> <<>>]

\* Where the file handed to a call came from (history, not read by the code).
NoSource ==
    [kind |-> "none", file |-> NoFile, password |-> <<>>, salt |-> <<>>,
     iv |-> <<>>, payload |-> <<>>, pos |-> 0, bit |-> 0]

\* What crypto.getRandomValues gave a call (history).
NoRandom == [ok |-> FALSE, salt |-> <<>>, iv |-> <<>>]

\* pc is the promise the call is waiting for.  key and result hold at most
\* one element: <<>> is "not set".  source, random, fault, deriveKeyCalls and
\* cipherCalls are history: where the file came from, the random bytes drawn,
\* the promise the environment rejected, how often the call has invoked
\* deriveKey and the cipher, and whether another call was in flight when
\* this one was made.
IdleCall ==
    [op |-> "none", pc |-> "idle", file |-> NoFile, password |-> <<>>,
     hasCallback |-> FALSE, reported |-> <<>>, salt |-> <<>>, iv |-> <<>>,
     passwordBuffer |-> <<>>, baseKey |-> <<>>, key |-> <<>>,
     fileBuffer |-> <<>>, dataToEncrypt |-> <<>>, encryptedData |-> <<>>,
     decryptedBuffer |-> <<>>, result |-> <<>>,
     error |-> "", source |-> NoSource, random |-> NoRandom, fault |-> "none",
     deriveKeyCalls |-> 0, cipherCalls |-> 0, startedBeside |-> FALSE]

\* progressCallback?.(p)
Report(k, p) ==
    IF k.hasCallback THEN [k EXCEPT !.reported = Append(@, p)] ELSE k

\* Mutant: the catch block rethrows what it caught.
CaughtRethrown(k, fault) ==
    [k EXCEPT !.pc = "failed", !.error = fault, !.fault = fault]

\* The catch block: whatever was thrown, one Error with a fixed message.
Caught(k, fault) ==
    [k EXCEPT !.pc = "failed",
              !.error = IF k.op = "encrypt" THEN EncryptError ELSE DecryptError,
              !.fault = fault]

\* deriveKey up to its first await: encode the password, call importKey.
DeriveKeyCalled(k, salt) ==
    [k EXCEPT !.passwordBuffer = TextEncode(k.password),
              !.salt = salt,
              !.deriveKeyCalls = @ + 1,
              !.pc = "importKey"]

\* encryptFile up to its first await: 10, salt and IV, 20, deriveKey called.
\* rnd is what crypto.getRandomValues does: the bytes, or an exception.
EncryptCalled(file, pw, cb, rnd) ==
    LET k0 == [IdleCall EXCEPT !.op = "encrypt", !.file = file,
                               !.password = pw, !.hasCallback = cb,
                               !.random = rnd]
        k1 == Report(k0, 10)
    IN  IF ~rnd.ok THEN Caught(k1, "random")
        ELSE DeriveKeyCalled(Report([k1 EXCEPT !.iv = rnd.iv], 20), rnd.salt)

\* decryptFile up to its first await: 10, file.arrayBuffer() called.
DecryptCalled(file, pw, cb, source) ==
    LET k0 == [IdleCall EXCEPT !.op = "decrypt", !.file = file,
                               !.password = pw, !.hasCallback = cb,
                               !.source = source]
    IN  [Report(k0, 10) EXCEPT !.pc = "arrayBuffer"]

\* importKey settles; deriveKey goes on to crypto.subtle.deriveKey.
ImportKeySettled(k, ok) ==
    IF ~ok THEN Caught(k, "importKey")
    ELSE [k EXCEPT !.baseKey = ImportKey(k.passwordBuffer), !.pc = "deriveKey"]

\* crypto.subtle.deriveKey settles and the caller's await of deriveKey with
\* it: encryptFile reports 40 and reads the file, decryptFile reports 60 and
\* calls crypto.subtle.decrypt.
DeriveKeySettled(k, ok) ==
    IF ~ok THEN Caught(k, "deriveKey")
    ELSE LET k1 == [k EXCEPT !.key = <<Pbkdf2(k.baseKey, k.salt)>>]
         IN  IF k.op = "encrypt"
             THEN [Report(k1, 40) EXCEPT !.pc = "arrayBuffer"]
             ELSE [Report(k1, 60) EXCEPT !.pc = "cipher", !.cipherCalls = @ + 1]

\* file.arrayBuffer() settles.  encryptFile: 60, the payload, 80,
\* crypto.subtle.encrypt called.  decryptFile: 20, the three slices, 40,
\* deriveKey called.
ArrayBufferSettled(k, ok) ==
    IF ~ok THEN Caught(k, "arrayBuffer")
    ELSE IF k.op = "encrypt"
         THEN LET k1 == Report([k EXCEPT !.fileBuffer = k.file.bytes], 60)
                  k2 == [k1 EXCEPT !.dataToEncrypt =
                                       BuildPayload(k.file.name, k1.fileBuffer)]
              IN  [Report(k2, 80) EXCEPT !.pc = "cipher", !.cipherCalls = @ + 1]
         ELSE LET parts == SplitContainer(k.file.bytes)
                  k1 == Report([k EXCEPT !.fileBuffer = k.file.bytes], 20)
                  k2 == [k1 EXCEPT !.iv = parts.iv,
                                   !.encryptedData = parts.encryptedData]
              IN  DeriveKeyCalled(Report(k2, 40), parts.salt)

\* Mutant: 90 and 100 reported before the await of the cipher is over.
EncryptSettledEager(k, ok) ==
    LET k1 == Report(Report(k, 90), 100)
    IN  IF ~ok THEN [k1 EXCEPT !.pc = "failed", !.error = EncryptError,
                               !.fault = "cipher"]
        ELSE LET encryptedData == AesGcmEncrypt(k.key[1], k.iv, k.dataToEncrypt)
             IN  [k1 EXCEPT !.encryptedData = encryptedData,
                            !.result = <<k.salt \o k.iv \o encryptedData>>,
                            !.pc = "done"]

\* crypto.subtle.encrypt settles: 90, the container, 100, return.
EncryptSettled(k, ok) ==
    IF ~ok THEN Caught(k, "cipher")
    ELSE LET encryptedData == AesGcmEncrypt(k.key[1], k.iv, k.dataToEncrypt)
             k1 == Report([k EXCEPT !.encryptedData = encryptedData], 90)
             result == BuildContainer(k.salt, k.iv, encryptedData)
         IN  [Report(k1, 100) EXCEPT !.result = <<result>>, !.pc = "done"]

\* Mutant: a failed authentication is retried from the key derivation.
DecryptSettledRetried(k) ==
    LET dec == AesGcmDecrypt(k.key[1], k.iv, k.encryptedData)
    IN  IF ~dec.ok THEN DeriveKeyCalled(k, k.salt)
        ELSE LET k1 == Report([k EXCEPT !.decryptedBuffer = dec.pt], 80)
                 parsed == ParsePayload(dec.pt)
             IN  IF ~parsed.ok THEN Caught(k1, "none")
                 ELSE [Report(k1, 100) EXCEPT
                          !.result = <<[decryptedData |-> parsed.decryptedData,
                                        originalFilename |-> parsed.originalFilename]>>,
                          !.pc = "done"]

\* crypto.subtle.decrypt settles: on OperationError the catch block; else
\* 80, the payload parsed (a RangeError goes to the catch block), 100, return.
\* (dec is what the one call of crypto.subtle.decrypt gave: CHOOSE binds it
\* to that value, where a LET would stand for the call wherever dec is read.)
DecryptSettled(k) ==
    LET Resolved(dec) ==
            IF ~dec.ok THEN Caught(k, "none")
            ELSE LET k1 == Report([k EXCEPT !.decryptedBuffer = dec.pt], 80)
                     parsed == ParsePayload(dec.pt)
                 IN  IF ~parsed.ok THEN Caught(k1, "none")
                     ELSE [Report(k1, 100) EXCEPT
                              !.result = <<[decryptedData |-> parsed.decryptedData,
                                            originalFilename |-> parsed.originalFilename]>>,
                              !.pc = "done"]
    IN  CHOOSE n \in {Resolved(dec) :
                         dec \in {AesGcmDecrypt(k.key[1], k.iv, k.encryptedData)}} :
            TRUE

---------------------------------------------------------------------------
(* The inputs the calls are given *)

Str_a_txt == <<97, 46, 116, 120, 116>>                      \* "a.txt"
Str_bom_a == <<65279, 97>>                                  \* U+FEFF "a"
Str_e_acute == <<233>>                                      \* U+00E9
Str_emoji == <<55357, 56832>>                               \* U+1F600
DotEncrypted == <<46, 101, 110, 99, 114, 121, 112, 116, 101, 100>>

\* Files as the file picker hands them over: File.name is a USVString.
Files ==
    {[name |-> Str_a_txt, bytes |-> RawSeq(<<104, 101, 108, 108, 111>>)],
     [name |-> Str_bom_a, bytes |-> RawSeq(<<104>>)],
     [name |-> Str_e_acute, bytes |-> RawSeq(<<104, 105>>)],
     [name |-> Str_emoji, bytes |-> RawSeq(<<0>>)]}

\* Passwords are JavaScript strings: "pw", "wrong", "p" before a lone high
\* surrogate, "p" before a lone low surrogate, and "pw" followed by U+0000.
Passwords == {<<112, 119>>, <<119, 114, 111, 110, 103>>, <<112, 55296>>,
              <<112, 56320>>, <<112, 119, 0>>}

Salts == {[i \in 1..SaltLen |-> Raw(i)], [i \in 1..SaltLen |-> Raw(255 - i)]}

Ivs == {[i \in 1..IvLen |-> Raw(100 + i)], [i \in 1..IvLen |-> Raw(0)]}

\* crypto.getRandomValues twice: any bytes, or an exception.
RandomOutcomes ==
    {[ok |-> TRUE, salt |-> s, iv |-> i] : s \in Salts, i \in Ivs}
        \cup {NoRandom}

\* What encryptFile returns for the file, password, salt and IV.
ContainerOf(file, pw, salt, iv) ==
    BuildContainer(salt, iv,
        AesGcmEncrypt(deriveKey(pw, salt), iv, BuildPayload(file.name, file.bytes)))

\* The container of the file downloaded after a successful encryptFile call.
Genuine(file, pw, salt, iv) ==
    [file |-> [name |-> file.name \o DotEncrypted,
               bytes |-> ContainerOf(file, pw, salt, iv)],
     source |-> [NoSource EXCEPT !.kind = "genuine", !.file = file,
                                 !.password = pw, !.salt = salt, !.iv = iv]]

GenuineInputs ==
    {Genuine(f, p, s, i) : f \in Files, p \in Passwords, s \in Salts, i \in Ivs}

\* A downloaded container with one bit inverted.
Tampered(g, pos, bit) ==
    [file |-> [g.file EXCEPT !.bytes = FlipBit(@, pos, bit)],
     source |-> [g.source EXCEPT !.kind = "tampered", !.pos = pos, !.bit = bit]]

\* A downloaded container cut to its first n bytes.
Truncated(g, n) ==
    [file |-> [g.file EXCEPT !.bytes = Slice(@, 0, n)],
     source |-> [g.source EXCEPT !.kind = "truncated", !.pos = n]]

\* Payloads whose framing is not what encryptFile writes: nothing at all,
\* three bytes, a length of 5 over "ab", a length of 3 over two bytes of a
\* three-byte character, and a length of 1 over "a" with no file data.
OddPayloads ==
    {<<>>, RawSeq(<<1, 0, 0>>), Uint32LE(5) \o RawSeq(<<97, 98>>),
     Uint32LE(3) \o RawSeq(<<226, 130>>), Uint32LE(1) \o RawSeq(<<97>>)}

\* A container somebody who knows the password made with the same
\* primitives around a payload of their choosing.
Crafted(payload, pw, salt, iv) ==
    [file |-> [name |-> DotEncrypted,
               bytes |-> BuildContainer(salt, iv,
                             AesGcmEncrypt(deriveKey(pw, salt), iv, payload))],
     source |-> [NoSource EXCEPT !.kind = "crafted", !.password = pw,
                                 !.salt = salt, !.iv = iv, !.payload = payload]]

\* n plain bytes that no encryption produced.
Forged(n) ==
    [file |-> [name |-> DotEncrypted, bytes |-> [i \in 1..n |-> Raw(i % 256)]],
     source |-> [NoSource EXCEPT !.kind = "forged", !.pos = n]]

---------------------------------------------------------------------------
(* State and actions *)

Calls == 1..MaxCalls

Init ==
    /\ calls = [c \in Calls |-> IdleCall]
    /\ password = <<>>
    /\ passwordStrength = "null"
    /\ selectedFile = <<>>
    /\ isProcessing = FALSE
    /\ progress = 0
    /\ message = <<>>
    /\ timers = FALSE

\* Mutant: the salt kept in one variable of the module, which the first
\* call's value occupies.
LocalsSharedSalt(c) == [calls[c] EXCEPT !.salt = calls[1].salt]

\* Whether a call other than c is in flight.
InFlightBeside(c) ==
    \E d \in Calls \ {c} : calls[d].pc \notin {"idle", "done", "failed"}

\* The locals of call c, which its continuations close over.
LocalsOf(c) == calls[c]

\* A caller calls encryptFile(file, password, progressCallback).
encryptFile(c, file, pw, cb, rnd) ==
    /\ LocalsOf(c).pc = "idle"
    /\ calls' = [calls EXCEPT ![c] =
                     [EncryptCalled(file, pw, cb, rnd) EXCEPT
                         !.startedBeside = InFlightBeside(c)]]
    /\ UNCHANGED <<password, passwordStrength, panel>>

\* A caller calls decryptFile(file, password, progressCallback).
decryptFile(c, file, pw, cb, source) ==
    /\ LocalsOf(c).pc = "idle"
    /\ calls' = [calls EXCEPT ![c] =
                     [DecryptCalled(file, pw, cb, source) EXCEPT
                         !.startedBeside = InFlightBeside(c)]]
    /\ UNCHANGED <<password, passwordStrength, panel>>

ImportKeySettles(c, ok) ==
    /\ LocalsOf(c).pc = "importKey"
    /\ calls' = [calls EXCEPT ![c] = ImportKeySettled(LocalsOf(c), ok)]
    /\ UNCHANGED <<password, passwordStrength, panel>>

DeriveKeySettles(c, ok) ==
    /\ LocalsOf(c).pc = "deriveKey"
    /\ calls' = [calls EXCEPT ![c] = DeriveKeySettled(LocalsOf(c), ok)]
    /\ UNCHANGED <<password, passwordStrength, panel>>

ArrayBufferSettles(c, ok) ==
    /\ LocalsOf(c).pc = "arrayBuffer"
    /\ calls' = [calls EXCEPT ![c] = ArrayBufferSettled(LocalsOf(c), ok)]
    /\ UNCHANGED <<password, passwordStrength, panel>>

EncryptSettles(c, ok) ==
    /\ LocalsOf(c).pc = "cipher"
    /\ LocalsOf(c).op = "encrypt"
    /\ calls' = [calls EXCEPT ![c] = EncryptSettled(LocalsOf(c), ok)]
    /\ UNCHANGED <<password, passwordStrength, panel>>

DecryptSettles(c) ==
    /\ LocalsOf(c).pc = "cipher"
    /\ LocalsOf(c).op = "decrypt"
    /\ calls' = [calls EXCEPT ![c] = DecryptSettled(LocalsOf(c))]
    /\ UNCHANGED <<password, passwordStrength, panel>>

\* The promises of call c settle, each fulfilled or rejected.
Settles(c) ==
    \/ \E ok \in BOOLEAN : ImportKeySettles(c, ok)
    \/ \E ok \in BOOLEAN : DeriveKeySettles(c, ok)
    \/ \E ok \in BOOLEAN : ArrayBufferSettles(c, ok)
    \/ \E ok \in BOOLEAN : EncryptSettles(c, ok)
    \/ DecryptSettles(c)

\* The positions of a container: every bit of every byte.
BitPositions(bytes) == (0..(Len(bytes) - 1)) \X (0..7)

\* The files a decryptFile call of the single-call specification is given,
\* and the passwords tried on each: a tampered container is tried with the
\* password it was encrypted under.
StartDecrypt(c) ==
    /\ LocalsOf(c).pc = "idle"
    /\ \/ \E g \in GenuineInputs, pw \in Passwords, cb \in BOOLEAN :
              decryptFile(c, g.file, pw, cb, g.source)
       \/ \E g \in GenuineInputs, cb \in BOOLEAN :
              \E pb \in BitPositions(g.file.bytes) :
                  LET t == Tampered(g, pb[1], pb[2])
                  IN  decryptFile(c, t.file, g.source.password, cb, t.source)
       \/ \E g \in GenuineInputs, n \in 0..(HeaderLen + TagLen), cb \in BOOLEAN :
              LET t == Truncated(g, n)
              IN  decryptFile(c, t.file, g.source.password, cb, t.source)
       \/ \E payload \in OddPayloads, pw \in Passwords, s \in Salts, i \in Ivs,
             cb \in BOOLEAN :
              LET x == Crafted(payload, pw, s, i)
              IN  decryptFile(c, x.file, pw, cb, x.source)
       \/ \E n \in {0, HeaderLen - 1, HeaderLen, HeaderLen + TagLen + 8},
             pw \in Passwords, cb \in BOOLEAN :
              LET x == Forged(n)
              IN  decryptFile(c, x.file, pw, cb, x.source)

StartEncrypt(c) ==
    /\ LocalsOf(c).pc = "idle"
    /\ \E f \in Files, pw \in Passwords, cb \in BOOLEAN, rnd \in RandomOutcomes :
           encryptFile(c, f, pw, cb, rnd)

\* One call of encryptFile or decryptFile, from the call to its return.
Next ==
    \/ StartEncrypt(1)
    \/ StartDecrypt(1)
    \/ Settles(1)

Spec == Init /\ [][Next]_vars

\* A second caller, as another task of the same page would be: few inputs,
\* any interleaving.
FewFiles == {[name |-> Str_e_acute, bytes |-> RawSeq(<<104, 105>>)]}

FewRandomOutcomes ==
    {[ok |-> TRUE, salt |-> s, iv |-> [i \in 1..IvLen |-> Raw(0)]] : s \in Salts}
        \cup {NoRandom}

FewDecryptInputs ==
    {Genuine(f, <<112, 119>>, [i \in 1..SaltLen |-> Raw(i)],
             [i \in 1..IvLen |-> Raw(0)]) : f \in FewFiles}
        \cup {Crafted(Uint32LE(5) \o RawSeq(<<97, 98>>), <<112, 119>>,
                      [i \in 1..SaltLen |-> Raw(i)], [i \in 1..IvLen |-> Raw(0)])}

StartEncryptFew(c) ==
    /\ LocalsOf(c).pc = "idle"
    /\ \E f \in FewFiles, rnd \in FewRandomOutcomes :
           encryptFile(c, f, <<112, 119>>, c % 2 = 1, rnd)

StartDecryptFew(c) ==
    /\ LocalsOf(c).pc = "idle"
    /\ \/ \E x \in FewDecryptInputs :
              decryptFile(c, x.file, <<112, 119>>, c % 2 = 1, x.source)
       \/ \E f \in FewFiles :
              LET x == Genuine(f, <<112, 119>>, [i \in 1..SaltLen |-> Raw(i)],
                               [i \in 1..IvLen |-> Raw(0)])
              IN  decryptFile(c, x.file, <<119, 114, 111, 110, 103>>,
                              c % 2 = 1, x.source)

\* MaxCalls calls in flight at once; their awaited steps interleave freely.
NextConcurrent ==
    \E c \in Calls : StartEncryptFew(c) \/ StartDecryptFew(c) \/ Settles(c)

SpecConcurrent == Init /\ [][NextConcurrent]_vars

\* One call, of encryptFile on any of the files and passwords or of
\* decryptFile on the few inputs.
NextFair == StartEncrypt(1) \/ StartDecryptFew(1) \/ Settles(1)

\* The promises a call awaits (importKey, deriveKey, arrayBuffer, encrypt,
\* decrypt) are settled by the browser, and the event loop then runs the
\* call's continuation: a call that waits is eventually resumed.
SpecFair == Init /\ [][NextFair]_vars /\ WF_vars(Settles(1))

---------------------------------------------------------------------------
(* The password field of EncryptionTool *)

PasswordAlphabet == <<65, 97, 49, 33, 45>>       \* "A", "a", "1", "!", "-"

Str_abc == <<97, 98, 99>>
Str_abcdefgh == <<97, 98, 99, 100, 101, 102, 103, 104>>
Str_Abcdefg1 == <<65, 98, 99, 100, 101, 102, 103, 49>>
Str_Abcdefghijk1bang ==
    <<65, 98, 99, 100, 101, 102, 103, 104, 105, 106, 107, 49, 33>>

Repeat(ch, n) == [i \in 1..n |-> ch]

\* The characters of the alphabet that are in chars, in the alphabet's order.
StringOf(chars) ==
    LET Chosen(ch) == ch \in chars IN SelectSeq(PasswordAlphabet, Chosen)

\* What can be typed into the field: any choice of characters of the
\* alphabet followed by up to MaxPad repetitions of one of them, and the
\* four documented examples.
TypedPasswords ==
    {StringOf(chars) \o Repeat(PasswordAlphabet[i], n) :
         chars \in SUBSET {65, 97, 49, 33, 45}, i \in 1..Len(PasswordAlphabet),
         n \in 0..MaxPad}
        \cup {Str_abc, Str_abcdefgh, Str_Abcdefg1, Str_Abcdefghijk1bang}

handlePasswordChange(value) ==
    /\ password' = value
    /\ passwordStrength' = IF value # <<>> THEN validatePassword(value) ELSE "null"
    /\ UNCHANGED <<calls, panel>>

NextUI == \E value \in TypedPasswords : handlePasswordChange(value)

SpecUI == Init /\ [][NextUI]_vars

---------------------------------------------------------------------------
(* A call run on its own *)

Terminal(k) == k.pc \in {"done", "failed"}

\* What the caller gets: the returned value or the thrown error.
Outcome(k) == [pc |-> k.pc, result |-> k.result, error |-> k.error]

\* The call k stands for, at its first await, with or without a callback.
CalledAs(k, cb) ==
    IF k.op = "encrypt"
    THEN EncryptCalled(k.file, k.password, cb, k.random)
    ELSE DecryptCalled(k.file, k.password, cb, k.source)

\* The next settlement of a call that runs with nothing else in flight; the
\* environment rejects the promise named by fault, if any.
SettledAlone(k, fault) ==
    CASE k.pc = "importKey" -> ImportKeySettled(k, fault # "importKey")
      [] k.pc = "deriveKey" -> DeriveKeySettled(k, fault # "deriveKey")
      [] k.pc = "arrayBuffer" -> ArrayBufferSettled(k, fault # "arrayBuffer")
      [] k.pc = "cipher" /\ k.op = "encrypt" -> EncryptSettled(k, fault # "cipher")
      [] k.pc = "cipher" /\ k.op = "decrypt" -> DecryptSettled(k)

RECURSIVE RunAlone(_, _)
RunAlone(k, fault) ==
    IF Terminal(k) THEN k ELSE RunAlone(SettledAlone(k, fault), fault)

---------------------------------------------------------------------------
(* The EncryptionTool component: its handlers around the two operations *)

MaxSize == 50 * 1024 * 1024

\* selectedFile: { file, encrypted?, originalName? }; <<>> is "undefined".
FileData(file, encrypted, originalName) ==
    [file |-> file, encrypted |-> encrypted, originalName |-> originalName]

\* showMessage(type, text): the message, and a timer that will clear it.
\* about is what the text is built from besides the fixed words.  timers is
\* whether any such timer is pending.
showMessage(type, text, about) ==
    /\ message' = <<[type |-> type, text |-> text, about |-> about]>>
    /\ timers' = TRUE

\* A timer set by showMessage fires; others may be pending still.
MessageTimeout ==
    /\ timers
    /\ message' = <<>>
    /\ timers' \in BOOLEAN
    /\ UNCHANGED <<calls, password, passwordStrength, selectedFile,
                   isProcessing, progress>>

handleFileSelect(file) ==
    /\ IF Len(file.bytes) > MaxSize
       THEN /\ showMessage("error", "File size must be less than 50MB", <<>>)
            /\ UNCHANGED selectedFile
       ELSE /\ selectedFile' = <<FileData(file, <<>>, <<>>)>>
            /\ showMessage("info", "Selected: ", <<file.name, Len(file.bytes)>>)
    /\ UNCHANGED <<calls, password, passwordStrength, isProcessing, progress>>

ToolPasswords == {<<>>, Str_abc, Str_Abcdefg1}

\* crypto.getRandomValues gives the bytes, or throws.
ToolRandomOutcomes ==
    {[ok |-> TRUE, salt |-> [i \in 1..SaltLen |-> Raw(i)],
      iv |-> [i \in 1..IvLen |-> Raw(0)]], NoRandom}

\* The files there are to select.
ToolFiles == FewFiles

\* Mutant: the buttons are disabled only for want of a file or a password.
EnabledWhileProcessing == selectedFile = <<>> \/ password = <<>>

\* disabled={isProcessing || !selectedFile || !password}, on both buttons.
Disabled == isProcessing \/ selectedFile = <<>> \/ password = <<>>

\* Mutant: handleEncrypt takes any password.
WeakPasswordAccepted == FALSE

\* handleEncrypt: passwordStrength === 'weak'
WeakPassword == passwordStrength = "weak"

\* The call the next operation makes: the first one not yet made.
NextCall(c) ==
    /\ LocalsOf(c).pc = "idle"
    /\ \A d \in 1..(c - 1) : LocalsOf(d).pc # "idle"

\* What the handler that awaits call c does in a step that has moved the
\* call on.  While the call waits, the progress bar shows what the call last
\* reported; when it has returned the handler replaces the selected file and
\* shows the success message, when it has thrown the handler shows the error
\* message, and either way the finally block runs.
Awaited(c, processing) ==
    IF calls'[c].pc = "done"
    THEN /\ selectedFile' =
                IF calls'[c].op = "encrypt"
                THEN <<FileData([name |-> calls'[c].file.name \o DotEncrypted,
                                 bytes |-> calls'[c].result[1]],
                                <<TRUE>>, <<calls'[c].file.name>>)>>
                ELSE <<FileData([name |-> calls'[c].result[1].originalFilename,
                                 bytes |-> calls'[c].result[1].decryptedData],
                                <<FALSE>>, <<>>)>>
         /\ showMessage("success",
                        IF calls'[c].op = "encrypt"
                        THEN "File encrypted successfully!"
                        ELSE "File decrypted successfully!", <<>>)
         /\ isProcessing' = FALSE
         /\ progress' = 0
    ELSE IF calls'[c].pc = "failed"
    THEN /\ showMessage("error",
                        IF calls'[c].op = "encrypt"
                        THEN "Encryption failed. Please try again."
                        ELSE "Decryption failed. Please check your password and try again.",
                        <<>>)
         /\ isProcessing' = FALSE
         /\ progress' = 0
         /\ UNCHANGED selectedFile
    ELSE /\ isProcessing' = processing
         /\ progress' = calls'[c].reported[Len(calls'[c].reported)]
         /\ UNCHANGED <<selectedFile, message, timers>>

\* A click on Encrypt.
handleEncrypt(c) ==
    /\ ~Disabled
    /\ NextCall(c)
    /\ IF selectedFile = <<>> \/ password = <<>>
       THEN /\ showMessage("error", "Please select a file and enter a password", <<>>)
            /\ UNCHANGED <<calls, selectedFile, isProcessing, progress>>
       ELSE IF WeakPassword
       THEN /\ showMessage("error", "Please use a stronger password", <<>>)
            /\ UNCHANGED <<calls, selectedFile, isProcessing, progress>>
       ELSE /\ \E rnd \in ToolRandomOutcomes :
                   calls' = [calls EXCEPT ![c] =
                                [EncryptCalled(selectedFile[1].file, password,
                                               TRUE, rnd)
                                    EXCEPT !.startedBeside = InFlightBeside(c)]]
            /\ Awaited(c, TRUE)
    /\ UNCHANGED <<password, passwordStrength>>

\* A click on Decrypt.
handleDecrypt(c) ==
    /\ ~Disabled
    /\ NextCall(c)
    /\ IF selectedFile = <<>> \/ password = <<>>
       THEN /\ showMessage("error",
                           "Please select an encrypted file and enter the password", <<>>)
            /\ UNCHANGED <<calls, selectedFile, isProcessing, progress>>
       ELSE /\ calls' = [calls EXCEPT ![c] =
                            [DecryptCalled(selectedFile[1].file, password,
                                           TRUE, NoSource)
                                EXCEPT !.startedBeside = InFlightBeside(c)]]
            /\ Awaited(c, TRUE)
    /\ UNCHANGED <<password, passwordStrength>>

\* Call k after the promise it awaits has settled.
Resumed(k, ok) ==
    CASE k.pc = "importKey" -> ImportKeySettled(k, ok)
      [] k.pc = "deriveKey" -> DeriveKeySettled(k, ok)
      [] k.pc = "arrayBuffer" -> ArrayBufferSettled(k, ok)
      [] k.pc = "cipher" /\ k.op = "encrypt" -> EncryptSettled(k, ok)
      [] k.pc = "cipher" /\ k.op = "decrypt" -> DecryptSettled(k)

\* The promise call c awaits settles; the call goes on to its next await, or
\* it ends and the handler that awaits it goes on in the same turn.
OperationSettles(c) ==
    /\ LocalsOf(c).pc \notin {"idle", "done", "failed"}
    /\ \E ok \in BOOLEAN :
           calls' = [calls EXCEPT ![c] = Resumed(LocalsOf(c), ok)]
    /\ Awaited(c, isProcessing)
    /\ UNCHANGED <<password, passwordStrength>>

NextTool ==
    \/ \E value \in ToolPasswords : handlePasswordChange(value)
    \/ \E file \in ToolFiles : handleFileSelect(file)
    \/ \E c \in Calls : handleEncrypt(c)
    \/ \E c \in Calls : handleDecrypt(c)
    \/ \E c \in Calls : OperationSettles(c)
    \/ MessageTimeout

\* The browser settles every promise a call awaits.
SpecTool ==
    Init /\ [][NextTool]_vars /\ \A c \in Calls : WF_vars(OperationSettles(c))

---------------------------------------------------------------------------
(* Properties *)

\* The one error decryptFile throws, for a wrong password and for a damaged
\* file alike, and nothing returned.
AuthenticationFailed(k) ==
    k.pc = "failed" /\ k.error = DecryptError /\ k.result = <<>>

\* k decrypts a container encryptFile returned, nothing rejected by the
\* environment on the way.
DecryptsGenuine(k) ==
    k.op = "decrypt" /\ Terminal(k) /\ k.source.kind = "genuine"
        /\ k.fault = "none"

\* Every container an encryptFile call has returned is the container the
\* decryptFile calls of this model are given for that file, password, salt
\* and IV.
ReturnsContainerOf ==
    \A c \in Calls :
        LET k == calls[c]
        IN  (k.op = "encrypt" /\ k.pc = "done")
            => k.result = <<ContainerOf(k.file, k.password, k.random.salt,
                                        k.random.iv)>>

\* C1 (as claimed): decrypting the container of a non-empty file F named N
\* with the password it was encrypted under succeeds and returns exactly F
\* and exactly N.
C1_RoundTrip ==
    \A c \in Calls :
        LET k == calls[c]
        IN  (DecryptsGenuine(k) /\ k.password = k.source.password
                 /\ k.source.file.bytes # <<>>)
            => /\ k.pc = "done"
               /\ k.result = <<[decryptedData |-> k.source.file.bytes,
                                originalFilename |-> k.source.file.name]>>

\* C2: a container encryptFile returned, with any single bit of it inverted,
\* decrypted with the password it was encrypted under, fails with the
\* decryption error and returns neither file bytes nor a filename.
C2_TamperDetected ==
    /\ ReturnsContainerOf
    /\ \A c \in Calls :
           LET k == calls[c]
           IN  (k.op = "decrypt" /\ k.source.kind = "tampered")
               => /\ k.result = <<>>
                  /\ k.pc # "done"
                  /\ Terminal(k) => AuthenticationFailed(k)

\* C2's case: a call given a container with a bit of the filename length
\* inverted (the first ciphertext byte) got as far as the cipher and failed.
C2_Witness ==
    \E c \in Calls :
        LET k == calls[c]
        IN  /\ k.op = "decrypt" /\ k.source.kind = "tampered"
            /\ k.source.pos = HeaderLen /\ k.fault = "none"
            /\ k.cipherCalls = 1 /\ AuthenticationFailed(k)

KeyMaterial(pw) == StripTrailingZeros(RawSeq(Utf8OfAll(ToScalars(pw))))

C4_ShortInputRejectedEarly ==
    \A c \in Calls :
        LET k == calls[c]
        IN  (k.op = "decrypt" /\ Len(k.file.bytes) < HeaderLen /\ k.fault = "none")
            => /\ k.deriveKeyCalls = 0
               /\ k.cipherCalls = 0
               /\ Terminal(k) => (k.pc = "failed" /\ k.error # DecryptError)

\* The payload's length field reaches past the payload, or is not all there.
LengthPrefixInconsistent(payload) ==
    \/ Len(payload) < LenFieldLen
    \/ LenFieldLen + GetUint32LE(payload) > Len(payload)

\* C5 (as claimed): a payload that authenticates but whose length field
\* reaches past its end makes decryptFile fail; no truncated filename and no
\* empty file data are returned as a success.
C5_LengthPrefixValidated ==
    \A c \in Calls :
        LET k == calls[c]
        IN  (k.op = "decrypt" /\ Terminal(k) /\ k.source.kind = "crafted"
                 /\ k.password = k.source.password /\ k.fault = "none"
                 /\ LengthPrefixInconsistent(k.source.payload))
            => (k.pc = "failed" /\ k.result = <<>>)

\* C6: an encryptFile call in which random generation, key derivation, the
\* file read or the cipher fails throws the one encryption error, and no
\* call that has not run to its end holds a result, whole or partial.
C6_EncryptFailureAtomic ==
    \A c \in Calls :
        LET k == calls[c]
        IN  k.op = "encrypt"
            => /\ k.fault # "none" => k.pc = "failed"
               /\ k.pc = "failed" => (k.error = EncryptError /\ k.result = <<>>)
               /\ k.pc # "done" => k.result = <<>>
               /\ k.pc = "done" => (k.error = "" /\ k.fault = "none"
                                        /\ Len(k.result) = 1)

\* C6's case: the cipher rejected after the payload had been built.
C6_Witness ==
    \E c \in Calls :
        LET k == calls[c]
        IN  /\ k.op = "encrypt" /\ k.fault = "cipher" /\ k.pc = "failed"
            /\ k.dataToEncrypt # <<>> /\ k.error = EncryptError

NonDecreasing(seq) == \A i \in 1..(Len(seq) - 1) : seq[i] <= seq[i + 1]

\* C7: the values a call passes to its progress callback never decrease and
\* lie in 0..100; a call that returns has reported 100 last, a call that
\* throws has never reported 100; and what the call returns or throws is
\* what the same call without a callback returns or throws.
C7_ProgressReporting ==
    \A c \in Calls :
        LET k == calls[c]
        IN  /\ NonDecreasing(k.reported)
            /\ \A i \in 1..Len(k.reported) : k.reported[i] \in 0..100
            /\ ~k.hasCallback => k.reported = <<>>
            /\ (k.pc = "done" /\ k.hasCallback)
                   => (k.reported # <<>> /\ k.reported[Len(k.reported)] = 100)
            /\ k.pc # "done" => \A i \in 1..Len(k.reported) : k.reported[i] # 100
            /\ Terminal(k)
                   => Outcome(k) = Outcome(RunAlone(CalledAs(k, FALSE), k.fault))

\* C7's case: a decryptFile call with a callback that failed at the cipher
\* after reporting 10, 20, 40 and 60.
C7_Witness ==
    \E c \in Calls :
        LET k == calls[c]
        IN  /\ k.op = "decrypt" /\ k.hasCallback /\ k.pc = "failed"
            /\ k.reported = <<10, 20, 40, 60>>

ClassesPresent(pw) ==
    Cardinality({cls \in {"upper", "lower", "digit", "symbol"} :
        \E i \in 1..Len(pw) :
            \/ cls = "upper" /\ pw[i] \in 65..90
            \/ cls = "lower" /\ pw[i] \in 97..122
            \/ cls = "digit" /\ pw[i] \in 48..57
            \/ cls = "symbol" /\ pw[i] \in SymbolChars})

\* The classification as the claim words it.
ClaimedStrength(pw) ==
    IF Len(pw) < 8 \/ ClassesPresent(pw) < 2 THEN "weak"
    ELSE IF Len(pw) >= 12 /\ ClassesPresent(pw) >= 3 THEN "strong"
    ELSE "medium"

\* C8: the strength shown for a non-empty password is weak when it is shorter
\* than 8 or has fewer than 2 of the 4 character classes, strong when it has
\* at least 12 characters and 3 classes, and medium otherwise; "abc" and
\* "abcdefgh" are weak, "Abcdefg1" is medium, "Abcdefghijk1!" is strong.
C8_StrengthClassification ==
    /\ password # <<>> => passwordStrength = ClaimedStrength(password)
    /\ password = Str_abc => passwordStrength = "weak"
    /\ password = Str_abcdefgh => passwordStrength = "weak"
    /\ password = Str_Abcdefg1 => passwordStrength = "medium"
    /\ password = Str_Abcdefghijk1bang => passwordStrength = "strong"

\* C8's case: a password of exactly 12 characters in 3 classes is strong.
C8_Witness ==
    /\ Len(password) = 12 /\ ClassesPresent(password) = 3
    /\ passwordStrength = "strong"

\* C10: whatever else is in flight and however the steps interleave, a call
\* that has ended holds exactly what it holds when run alone on the same
\* file, password, callback, random bytes and environment failure.
C10_CallsIndependent ==
    \A c \in Calls :
        LET k == calls[c]
        IN  Terminal(k)
            => k = [RunAlone(CalledAs(k, k.hasCallback), k.fault) EXCEPT
                       !.startedBeside = k.startedBeside]

\* C10's case: a decryptFile call made while an encryptFile call was in
\* flight, and both have returned.
C10_Witness ==
    /\ calls[1].pc = "done" /\ calls[1].op = "encrypt"
    /\ calls[2].pc = "done" /\ calls[2].op = "decrypt"
    /\ calls[2].startedBeside

\* How far a call of op has come when it waits at pc, in the order of the
\* awaits in the code: encryptFile awaits deriveKey (importKey, deriveKey),
\* then arrayBuffer, then the cipher; decryptFile awaits arrayBuffer, then
\* deriveKey, then the cipher.
Position(op, pc) ==
    CASE pc = "idle" -> 0
      [] pc = "done" -> 5
      [] pc = "failed" -> 6
      [] pc = "cipher" -> 4
      [] pc = "importKey" -> IF op = "encrypt" THEN 1 ELSE 2
      [] pc = "deriveKey" -> IF op = "encrypt" THEN 2 ELSE 3
      [] pc = "arrayBuffer" -> IF op = "encrypt" THEN 3 ELSE 1

\* The last state of the claimed machine a call has reached: 0 Idle,
\* 1 RandomGenerated, 2 KeyDerived, 3 CipherApplied, 4 Framing parsed or
\* built, 5 Done, 6 Failed.  CipherApplied and Framing are passed in the one
\* step that follows the cipher's promise.
StageOf(k) ==
    CASE k.pc = "failed" -> 6
      [] k.pc = "done" -> 5
      [] k.key # <<>> -> 2
      [] k.op = "encrypt" /\ k.random.ok -> 1
      [] OTHER -> 0

\* What a call holds at each state of the machine.
StageConsistent(k) ==
    /\ k.deriveKeyCalls <= 1 /\ k.cipherCalls <= 1
    /\ (k.op = "decrypt" /\ ~Terminal(k)) => StageOf(k) \in {0, 2}
    /\ (k.op = "encrypt" /\ k.pc \notin {"idle", "failed"})
           => (k.random.ok /\ k.salt = k.random.salt /\ k.iv = k.random.iv)
    /\ k.key # <<>> => k.deriveKeyCalls = 1
    /\ k.cipherCalls = 1 => k.key # <<>>
    /\ k.pc = "done"
           => (k.deriveKeyCalls = 1 /\ k.cipherCalls = 1 /\ Len(k.result) = 1)

\* One step of the program, seen from call c.
ForwardOnly(c) ==
    LET k == calls[c]
        n == calls'[c]
    IN  /\ StageConsistent(n)
        /\ Terminal(k) => n = k
        /\ n # k
               => /\ Position(n.op, n.pc) > Position(n.op, k.pc)
                  /\ n.pc # "failed" => StageOf(n) >= StageOf(k)
                  /\ n.deriveKeyCalls >= k.deriveKeyCalls
                  /\ n.cipherCalls >= k.cipherCalls

\* C11: every call moves forward only, Idle, (RandomGenerated,) KeyDerived,
\* CipherApplied, Framing, Done, or from any of them to Failed; a call that
\* is Done or Failed takes no further step; no awaited step is taken twice
\* and deriveKey and the cipher are each called at most once; and every call
\* that was made ends Done or Failed.
C11_StateMachine ==
    /\ [][\A c \in Calls : ForwardOnly(c)]_vars
    /\ \A c \in Calls : (calls[c].op # "none") ~> Terminal(calls[c])

\* C11's case: an encryptFile call went through every state to Done, having
\* called deriveKey and the cipher once each.
C11_Witness ==
    \E c \in Calls :
        LET k == calls[c]
        IN  /\ k.op = "encrypt" /\ k.pc = "done" /\ k.hasCallback
            /\ k.reported = <<10, 20, 40, 60, 80, 90, 100>>
            /\ k.deriveKeyCalls = 1 /\ k.cipherCalls = 1

\* The strength the component holds is that of the password it holds.
StrengthStored ==
    passwordStrength =
        IF password # <<>> THEN validatePassword(password) ELSE "null"

\* The gate as the claim words it.
GateOpen ==
    selectedFile # <<>> /\ password # <<>> /\ validatePassword(password) # "weak"

\* C12: whatever passwords were typed and files selected, the stored
\* strength is that of the current password; a step that calls encryptFile
\* is taken with a file selected and a non-empty password that is not weak,
\* and passes that file and that password; and a handleEncrypt step taken
\* with no file, no password or a weak password calls nothing and leaves
\* selectedFile, isProcessing and progress as they are.
C12_PasswordGate ==
    [][/\ StrengthStored /\ StrengthStored'
       /\ \A c \in Calls :
              (calls[c].op = "none" /\ calls'[c].op = "encrypt")
                  => /\ GateOpen
                     /\ calls'[c].file = selectedFile[1].file
                     /\ calls'[c].password = password
       /\ ((\E c \in Calls : handleEncrypt(c)) /\ ~GateOpen)
              => UNCHANGED <<calls, selectedFile, isProcessing, progress>>]_vars

\* C12's case: Encrypt was clicked with a file selected and the weak
\* password "abc"; the click was refused and no call has been made.
C12_Witness ==
    /\ message # <<>> /\ message[1].text = "Please use a stronger password"
    /\ selectedFile # <<>> /\ password = Str_abc /\ passwordStrength = "weak"
    /\ \A c \in Calls : calls[c].op = "none"
    /\ ~isProcessing /\ progress = 0

InFlight(k) == k.pc \notin {"idle", "done", "failed"}

\* C13: isProcessing is true exactly while a call made by handleEncrypt or
\* handleDecrypt is in flight; at most one is in flight at a time; the step
\* in which a call returns or throws sets isProcessing to false and progress
\* to 0, and progress is 0 whenever nothing is in flight; and whenever
\* isProcessing is true it is eventually false again, with progress 0.
C13_ProcessingFlag ==
    /\ [](isProcessing <=> \E c \in Calls : InFlight(calls[c]))
    /\ [](Cardinality({c \in Calls : InFlight(calls[c])}) <= 1)
    /\ [](~isProcessing => progress = 0)
    /\ [][\A c \in Calls :
              (InFlight(calls[c]) /\ Terminal(calls'[c]))
                  => (~isProcessing' /\ progress' = 0)]_vars
    /\ isProcessing ~> (~isProcessing /\ progress = 0)

\* C13's case: one operation has succeeded and the next has failed, and the
\* flag is down again.
C13_Witness ==
    /\ calls[1].pc = "done" /\ calls[2].pc = "failed"
    /\ ~isProcessing /\ progress = 0

===========================================================================
